---- MODULE Spec2Model ----
(***************************************************************************)
(* Model of homeassistant/components/climate/nest.py: NestThermostat, the  *)
(* adapter between one python-nest thermostat handle (plus its structure   *)
(* handle) and the climate entity contract.                                *)
(*                                                                         *)
(* State: the adapter object (self), the two vendor handles it reads and   *)
(* writes (device, structure), the forced refreshes it has scheduled with  *)
(* the host (pending), the capabilities the device had when the adapter    *)
(* was constructed (given) and the observable outcome of the latest call   *)
(* (last).                                                                 *)
(***************************************************************************)
EXTENDS Integers, Sequences

VARIABLES self, device, structure, given, pending, last

vars == <<self, device, structure, given, pending, last>>

(***************************************************************************)
(* Bounds of the model.                                                    *)
(***************************************************************************)
\* Forced refreshes that may be scheduled and not yet run.
MaxPending == 1

(***************************************************************************)
(* Python values.  Every value the code handles is a tagged record, so     *)
(* that None, False, 0 and a tuple are different values and truthiness is  *)
(* computed the way Python computes it.                                    *)
(***************************************************************************)
None == [kind |-> "None"]

Bool(b) == [kind |-> "bool", b |-> b]

Num(n) == [kind |-> "num", n |-> n]

Str(s) == [kind |-> "str", s |-> s]

\* A (low, high) pair: python-nest's LowHighTuple, or the tuple of line 198.
Tuple(l, h) == [kind |-> "tuple", lo |-> l, hi |-> h]

\* An accessor that does not return but raises.
Raise(exc) == [kind |-> "raise", exc |-> exc]

\* bool(v)
Truthy(v) ==
    CASE v.kind = "None"  -> FALSE
      [] v.kind = "bool"  -> v.b
      [] v.kind = "num"   -> v.n # 0
      [] v.kind = "str"   -> v.s # ""
      [] v.kind = "tuple" -> TRUE

\* v[i] for i in {0, 1}: only a tuple can be subscripted.
Item(v, i) ==
    IF v.kind = "tuple" THEN (IF i = 0 THEN v.lo ELSE v.hi)
    ELSE Raise("TypeError")

(***************************************************************************)
(* Constants of the module and of the host it imports them from.           *)
(***************************************************************************)
NEST_MODE_HEAT_COOL == Str("heat-cool")

STATE_AUTO == Str("auto")

STATE_COOL == Str("cool")

STATE_HEAT == Str("heat")

STATE_ECO == Str("eco")

STATE_ON == Str("on")

STATE_OFF == Str("off")

STATE_UNKNOWN == Str("unknown")

TEMP_CELSIUS == Str("TEMP_CELSIUS")

TEMP_FAHRENHEIT == Str("TEMP_FAHRENHEIT")

SUPPORT_TARGET_TEMPERATURE == "SUPPORT_TARGET_TEMPERATURE"

SUPPORT_TARGET_TEMPERATURE_HIGH == "SUPPORT_TARGET_TEMPERATURE_HIGH"

SUPPORT_TARGET_TEMPERATURE_LOW == "SUPPORT_TARGET_TEMPERATURE_LOW"

SUPPORT_OPERATION_MODE == "SUPPORT_OPERATION_MODE"

SUPPORT_AWAY_MODE == "SUPPORT_AWAY_MODE"

SUPPORT_FAN_MODE == "SUPPORT_FAN_MODE"

(***************************************************************************)
(* The vendor handles.  The adapter consumes them through attribute reads  *)
(* and attribute writes only; what a read returns and what a write does is *)
(* python-nest's: the device's target is a (low, high) pair exactly while  *)
(* its mode is heat-cool, eco_temperature is always a (low, high) pair,    *)
(* fan reads as a boolean, and the structure's away reads as one of the    *)
(* strings 'away' and 'home' whatever was written.                         *)
(***************************************************************************)
\* The mode strings a device reports.
DeviceModes ==
    {STATE_HEAT, STATE_COOL, STATE_OFF, STATE_ECO, NEST_MODE_HEAT_COOL}

\* Single setpoints and setpoint ranges a device may hold.
Setpoints == {Num(20), Num(21)}

Ranges == {Tuple(Num(18), Num(24)), Tuple(Num(19), Num(23))}

\* device.target, as read at line 276.
DeviceTarget(d) ==
    IF d.mode = NEST_MODE_HEAT_COOL THEN d.target_range ELSE d.target_single

\* The outcomes of the write `device.target = temp` of line 205: the value
\* is stored, the remote service rejects it (nest.nest.APIError), or the
\* value has the wrong shape for the device's own mode (any other error).
TargetWriteOutcomes(d, temp) ==
    IF (temp.kind = "tuple") <=> (d.mode = NEST_MODE_HEAT_COOL)
    THEN {"ok", "APIError"}
    ELSE {"APIError", "TypeError"}

\* device.target = temp, accepted.
DeviceWithTarget(d, temp) ==
    IF temp.kind = "tuple"
    THEN [d EXCEPT !.target_range = temp]
    ELSE [d EXCEPT !.target_single = temp]

\* The outcomes of every other write to a handle (lines 223, 232, 236, 257).
WriteOutcomes == {"ok", "APIError"}

\* structure.away = value, accepted (lines 232 and 236).  A "vendor"
\* structure stores python-nest's token for the boolean; a "literal"
\* structure is a plain attribute and stores the boolean itself.
StructureWithAway(st, value) ==
    IF st.kind = "vendor"
    THEN [st EXCEPT !.away = IF Truthy(value) THEN Str("away") ELSE Str("home")]
    ELSE [st EXCEPT !.away = value]

\* device.fan = value, accepted (line 257): the fan timer is on for 'on'.
DeviceWithFan(d, value) == [d EXCEPT !.fan = Bool(value = Str("on"))]

\* str.lower() on the fan modes a caller passes (line 257).
Lower(v) ==
    CASE v = Str("ON")   -> Str("on")
      [] v = Str("Auto") -> Str("auto")
      [] OTHER           -> v

(***************************************************************************)
(* NestThermostat.__init__                                                 *)
(***************************************************************************)
Append2(seq, cond, x) == IF cond THEN Append(seq, x) ELSE seq

OperationListOf(d) ==
    Append(
      Append2(
        Append2(
          Append2(<<STATE_OFF>>, d.can_heat, STATE_HEAT),
          d.can_cool, STATE_COOL),
        d.can_heat /\ d.can_cool, STATE_AUTO),
      STATE_ECO)

SupportFlagsOf(d) ==
    {SUPPORT_TARGET_TEMPERATURE, SUPPORT_OPERATION_MODE, SUPPORT_AWAY_MODE}
      \cup (IF d.can_heat /\ d.can_cool
            THEN {SUPPORT_TARGET_TEMPERATURE_HIGH, SUPPORT_TARGET_TEMPERATURE_LOW}
            ELSE {})
      \cup (IF d.has_fan THEN {SUPPORT_FAN_MODE} ELSE {})

NestThermostat(d, temp_unit) ==
    [ unit               |-> temp_unit,
      fan_list           |-> <<STATE_ON, STATE_AUTO>>,
      support_flags      |-> SupportFlagsOf(d),
      operation_list     |-> OperationListOf(d),
      has_fan            |-> d.has_fan,
      away               |-> None,
      location           |-> None,
      name               |-> None,
      humidity           |-> None,
      target_temperature |-> None,
      temperature        |-> None,
      temperature_scale  |-> None,
      mode               |-> None,
      fan                |-> None,
      eco_temperature    |-> None,
      is_locked          |-> None,
      locked_temperature |-> None,
      min_temperature    |-> None,
      max_temperature    |-> None ]

(***************************************************************************)
(* Read accessors: functions of the adapter's fields.                      *)
(***************************************************************************)
supported_features(s) == s.support_flags

\* A plausible slip: the list rebuilt from the device on every read.
operation_list_Live(s) == OperationListOf(device)

operation_list(s) == s.operation_list

is_away_mode_on(s) == s.away

\* A plausible slip: the vendor's combined token left untranslated.
current_operation_NoAuto(s) ==
    IF s.mode \in {STATE_HEAT, STATE_COOL, STATE_OFF, STATE_ECO} THEN s.mode
    ELSE STATE_UNKNOWN

current_operation(s) ==
    IF s.mode \in {STATE_HEAT, STATE_COOL, STATE_OFF, STATE_ECO} THEN s.mode
    ELSE IF s.mode = NEST_MODE_HEAT_COOL THEN STATE_AUTO
    ELSE STATE_UNKNOWN

target_temperature(s) ==
    IF /\ s.mode # NEST_MODE_HEAT_COOL
       /\ s.mode # STATE_ECO
       /\ ~Truthy(is_away_mode_on(s))
    THEN s.target_temperature
    ELSE None

\* A plausible slip: the eco bound returned without the truthiness test.
TargetBound_NoTruthTest(s, i) ==
    IF Truthy(is_away_mode_on(s)) \/ s.mode = STATE_ECO
    THEN Item(s.eco_temperature, i)
    ELSE IF s.mode = NEST_MODE_HEAT_COOL
         THEN Item(s.target_temperature, i)
         ELSE None

\* A plausible slip: both accessors subscript the cached range with 0.
TargetBound_SameHalf(s, i) ==
    IF Truthy(is_away_mode_on(s)) \/ s.mode = STATE_ECO
    THEN IF Item(s.eco_temperature, i).kind = "raise"
         THEN Item(s.eco_temperature, i)
         ELSE IF Truthy(Item(s.eco_temperature, i))
              THEN Item(s.eco_temperature, i)
              ELSE IF s.mode = NEST_MODE_HEAT_COOL
                   THEN Item(s.target_temperature, 0)
                   ELSE None
    ELSE IF s.mode = NEST_MODE_HEAT_COOL
         THEN Item(s.target_temperature, 0)
         ELSE None

\* The shared body of target_temperature_low (i = 0) and _high (i = 1).
\* `a and b` evaluates b only when a is truthy, and a subscript of a value
\* that is no tuple raises.
TargetBound(s, i) ==
    IF Truthy(is_away_mode_on(s)) \/ s.mode = STATE_ECO
    THEN IF Item(s.eco_temperature, i).kind = "raise"
         THEN Item(s.eco_temperature, i)
         ELSE IF Truthy(Item(s.eco_temperature, i))
              THEN Item(s.eco_temperature, i)
              ELSE IF s.mode = NEST_MODE_HEAT_COOL
                   THEN Item(s.target_temperature, i)
                   ELSE None
    ELSE IF s.mode = NEST_MODE_HEAT_COOL
         THEN Item(s.target_temperature, i)
         ELSE None

target_temperature_low(s) == TargetBound(s, 0)

target_temperature_high(s) == TargetBound(s, 1)

current_fan_mode(s) ==
    IF s.has_fan THEN (IF Truthy(s.fan) THEN STATE_ON ELSE STATE_AUTO)
    ELSE None

fan_list(s) == IF s.has_fan THEN s.fan_list ELSE None

(***************************************************************************)
(* The observable outcome of a call: which entry point ran (op), its       *)
(* argument (arg), the attribute writes it attempted on the handles, in    *)
(* order (writes), what the handle answered to the write (handle: "" when  *)
(* nothing was written), the exception that left the entry point (raised:  *)
(* "" when it returned), the number of _LOGGER.error records it emitted    *)
(* (logged) and, for a refresh, the outcome of the call it followed        *)
(* (after).                                                                *)
(***************************************************************************)
NoCall == [op |-> "", arg |-> None, writes |-> <<>>, handle |-> "",
           raised |-> "", logged |-> 0]

Outcome(op, arg, writes, handle, raised, logged) ==
    [op |-> op, arg |-> arg, writes |-> writes, handle |-> handle,
     raised |-> raised, logged |-> logged, after |-> NoCall]

Write(attr, value) == [attr |-> attr, value |-> value]

\* The call a refresh follows: the latest outcome, without its own history.
Call(l) ==
    [op |-> l.op, arg |-> l.arg, writes |-> l.writes, handle |-> l.handle,
     raised |-> l.raised, logged |-> l.logged]

\* The exception a write raises out of the handle.
Exception(o) == IF o = "ok" THEN "" ELSE o

(***************************************************************************)
(* Inputs.                                                                 *)
(***************************************************************************)
\* set_temperature(**kwargs): each keyword is absent (None) or a number.
Kwargs ==
    [ temperature      : {None, Num(20)},
      target_temp_low  : {None, Num(18)},
      target_temp_high : {None, Num(24)} ]

\* set_operation_mode(operation_mode): the five modes and three other values.
OperationModeInputs ==
    {STATE_HEAT, STATE_COOL, STATE_OFF, STATE_ECO, STATE_AUTO,
     NEST_MODE_HEAT_COOL, Str("bogus"), None}

\* set_fan_mode(fan_mode)
FanModeInputs == {Str("ON"), Str("Auto")}

(***************************************************************************)
(* NestThermostat.set_temperature                                          *)
(***************************************************************************)
\* A plausible slip: the pair-or-single choice made on the device's mode.
TempToWrite_LiveMode(s, kwargs) ==
    IF device.mode = NEST_MODE_HEAT_COOL
    THEN IF kwargs.target_temp_low # None /\ kwargs.target_temp_high # None
         THEN Tuple(kwargs.target_temp_low, kwargs.target_temp_high)
         ELSE None
    ELSE kwargs.temperature

\* A plausible slip: an incomplete pair falls back to the single target.
TempToWrite_Fallback(s, kwargs) ==
    IF /\ s.mode = NEST_MODE_HEAT_COOL
       /\ kwargs.target_temp_low # None /\ kwargs.target_temp_high # None
    THEN Tuple(kwargs.target_temp_low, kwargs.target_temp_high)
    ELSE kwargs.temperature

\* The value lines 193-202 choose to write; None when nothing is written.
TempToWrite(s, kwargs) ==
    IF s.mode = NEST_MODE_HEAT_COOL
    THEN IF kwargs.target_temp_low # None /\ kwargs.target_temp_high # None
         THEN Tuple(kwargs.target_temp_low, kwargs.target_temp_high)
         ELSE None
    ELSE kwargs.temperature

\* A plausible slip: schedule_update_ha_state() without force_refresh, which
\* republishes the cache and never runs update.
ScheduledAfterFault_NoRefresh(p) == p

\* schedule_update_ha_state(True): one more forced refresh is due.
ScheduledAfterFault(p) == p + 1

set_temperature(kwargs) ==
    LET temp == TempToWrite(self, kwargs) IN
    /\ UNCHANGED <<self, structure, given>>
    /\ IF temp = None
       THEN /\ last' = Outcome("set_temperature", kwargs, <<>>, "", "", 0)
            /\ UNCHANGED <<device, pending>>
       ELSE \E o \in TargetWriteOutcomes(device, temp) :
              /\ device' = IF o = "ok" THEN DeviceWithTarget(device, temp)
                           ELSE device
              \* except nest.nest.APIError: log, schedule a forced refresh
              /\ IF o = "APIError"
                 THEN /\ pending < MaxPending
                      /\ pending' = ScheduledAfterFault(pending)
                      /\ last' = Outcome("set_temperature", kwargs,
                                         <<Write("device.target", temp)>>,
                                         o, "", 1)
                 ELSE /\ pending' = pending
                      /\ last' = Outcome("set_temperature", kwargs,
                                         <<Write("device.target", temp)>>,
                                         o, Exception(o), 0)

(***************************************************************************)
(* NestThermostat.set_operation_mode                                       *)
(***************************************************************************)
\* A plausible slip: the requested mode written without translation.
DeviceModeFor_Untranslated(operation_mode) ==
    IF operation_mode \in {STATE_HEAT, STATE_COOL, STATE_OFF, STATE_ECO, STATE_AUTO}
    THEN operation_mode
    ELSE STATE_OFF

DeviceModeFor(operation_mode) ==
    IF operation_mode \in {STATE_HEAT, STATE_COOL, STATE_OFF, STATE_ECO}
    THEN operation_mode
    ELSE IF operation_mode = STATE_AUTO THEN NEST_MODE_HEAT_COOL
    ELSE STATE_OFF

\* _LOGGER.error is reached in the last branch only.
ModeErrorsLogged(operation_mode) ==
    IF operation_mode \in {STATE_HEAT, STATE_COOL, STATE_OFF, STATE_ECO, STATE_AUTO}
    THEN 0 ELSE 1

set_operation_mode(operation_mode) ==
    LET device_mode == DeviceModeFor(operation_mode) IN
    \E o \in WriteOutcomes :
      /\ device' = IF o = "ok" THEN [device EXCEPT !.mode = device_mode]
                   ELSE device
      /\ last' = Outcome("set_operation_mode", operation_mode,
                         <<Write("device.mode", device_mode)>>,
                         o, Exception(o), ModeErrorsLogged(operation_mode))
      /\ UNCHANGED <<self, structure, pending, given>>

(***************************************************************************)
(* NestThermostat.turn_away_mode_on / turn_away_mode_off                   *)
(***************************************************************************)
turn_away_mode_on ==
    \E o \in WriteOutcomes :
      /\ structure' = IF o = "ok" THEN StructureWithAway(structure, Bool(TRUE))
                      ELSE structure
      /\ last' = Outcome("turn_away_mode_on", None,
                         <<Write("structure.away", Bool(TRUE))>>,
                         o, Exception(o), 0)
      /\ UNCHANGED <<self, device, pending, given>>

turn_away_mode_off ==
    \E o \in WriteOutcomes :
      /\ structure' = IF o = "ok" THEN StructureWithAway(structure, Bool(FALSE))
                      ELSE structure
      /\ last' = Outcome("turn_away_mode_off", None,
                         <<Write("structure.away", Bool(FALSE))>>,
                         o, Exception(o), 0)
      /\ UNCHANGED <<self, device, pending, given>>

(***************************************************************************)
(* NestThermostat.set_fan_mode                                             *)
(***************************************************************************)
set_fan_mode(fan_mode) ==
    /\ UNCHANGED <<self, structure, pending, given>>
    /\ IF self.has_fan
       THEN \E o \in WriteOutcomes :
              /\ device' = IF o = "ok" THEN DeviceWithFan(device, Lower(fan_mode))
                           ELSE device
              /\ last' = Outcome("set_fan_mode", fan_mode,
                                 <<Write("device.fan", Lower(fan_mode))>>,
                                 o, Exception(o), 0)
       ELSE /\ device' = device
            /\ last' = Outcome("set_fan_mode", fan_mode, <<>>, "", "", 0)

(***************************************************************************)
(* NestThermostat.update                                                   *)
(***************************************************************************)
\* A plausible slip: away taken as the truth value of the structure's field.
AwayOf_Truthy(st) == Bool(Truthy(st.away))

\* self.structure.away == 'away'
AwayOf(st) == Bool(st.away = Str("away"))

TemperatureScaleOf(d) ==
    IF d.temperature_scale = Str("C") THEN TEMP_CELSIUS ELSE TEMP_FAHRENHEIT

Updated(s, d, st) ==
    [s EXCEPT
       !.location           = d.where,
       !.name               = d.name,
       !.humidity           = d.humidity,
       !.temperature        = d.temperature,
       !.mode               = d.mode,
       !.target_temperature = DeviceTarget(d),
       !.fan                = d.fan,
       !.away               = AwayOf(st),
       !.eco_temperature    = d.eco_temperature,
       !.locked_temperature = d.locked_temperature,
       !.min_temperature    = d.min_temperature,
       !.max_temperature    = d.max_temperature,
       !.is_locked          = d.is_locked,
       !.temperature_scale  = TemperatureScaleOf(d)]

\* The host runs update on SIGNAL_NEST_UPDATE (async_update_ha_state(True),
\* lines 111-118) ...
update ==
    /\ self' = Updated(self, device, structure)
    /\ last' = [Outcome("update", Str("signal"), <<>>, "", "", 0)
                  EXCEPT !.after = Call(last)]
    /\ UNCHANGED <<device, structure, pending, given>>

\* ... and once for every schedule_update_ha_state(True) of line 210.
forced_update ==
    /\ pending > 0
    /\ pending' = pending - 1
    /\ self' = Updated(self, device, structure)
    /\ last' = [Outcome("update", Str("scheduled"), <<>>, "", "", 0)
                  EXCEPT !.after = Call(last)]
    /\ UNCHANGED <<device, structure, given>>

(***************************************************************************)
(* The world outside the adapter: the thermostat and the home change on    *)
(* their own, and python-nest's handles then read differently.             *)
(***************************************************************************)
Event == Outcome("event", None, <<>>, "", "", 0)

device_mode_event ==
    /\ \E m \in DeviceModes : device' = [device EXCEPT !.mode = m]
    /\ device' # device
    /\ last' = Event
    /\ UNCHANGED <<self, structure, pending, given>>

device_target_event ==
    /\ \/ \E t \in Setpoints : device' = [device EXCEPT !.target_single = t]
       \/ \E r \in Ranges : device' = [device EXCEPT !.target_range = r]
    /\ device' # device
    /\ last' = Event
    /\ UNCHANGED <<self, structure, pending, given>>

device_fan_event ==
    /\ device.has_fan
    /\ device' = [device EXCEPT !.fan = Bool(~device.fan.b)]
    /\ last' = Event
    /\ UNCHANGED <<self, structure, pending, given>>

structure_event ==
    /\ structure.kind = "vendor"
    /\ structure' = [structure EXCEPT
                       !.away = IF @ = Str("away") THEN Str("home") ELSE Str("away")]
    /\ last' = Event
    /\ UNCHANGED <<self, device, pending, given>>

\* The device's capability booleans change (a rewiring, a firmware change).
capability_event ==
    /\ \E h, c, f \in BOOLEAN :
         device' = [device EXCEPT !.can_heat = h, !.can_cool = c, !.has_fan = f]
    /\ device' # device
    /\ last' = Event
    /\ UNCHANGED <<self, structure, pending, given>>

(***************************************************************************)
(* Initial states and specifications.                                      *)
(***************************************************************************)
\* A thermostat as python-nest first reports it.
Thermostat(h, c, f, scale, eco) ==
    [ can_heat           |-> h,
      can_cool           |-> c,
      has_fan            |-> f,
      serial             |-> Str("01AA02AB"),
      where              |-> Str("Hallway"),
      name               |-> Str("Hallway (Upstairs)"),
      humidity           |-> Num(40),
      temperature        |-> Num(19),
      mode               |-> STATE_HEAT,
      target_single      |-> Num(21),
      target_range       |-> Tuple(Num(19), Num(23)),
      fan                |-> Bool(FALSE),
      eco_temperature    |-> eco,
      locked_temperature |-> Tuple(Num(15), Num(27)),
      min_temperature    |-> Num(9),
      max_temperature    |-> Num(32),
      is_locked          |-> Bool(FALSE),
      temperature_scale  |-> scale ]

\* The installations checked: a heat pump with a fan, reporting Celsius and
\* a full eco range, and a heat-only unit without a fan, reporting
\* Fahrenheit and an eco range with a zero and a missing bound.
Installations ==
    { Thermostat(TRUE, TRUE, TRUE, Str("C"), Tuple(Num(16), Num(22))),
      Thermostat(TRUE, FALSE, FALSE, Str("F"), Tuple(Num(0), None)) }

Constructed ==
    /\ pending = 0
    /\ last = Outcome("__init__", None, <<>>, "", "", 0)
    /\ given = [can_heat |-> device.can_heat, can_cool |-> device.can_cool,
                has_fan |-> device.has_fan]
    /\ self = NestThermostat(device, TEMP_CELSIUS)

Init ==
    /\ device \in Installations
    /\ structure = [kind |-> "vendor", away |-> Str("home")]
    /\ Constructed

\* The same thermostats behind a structure handle of either kind.
InitAway ==
    /\ device \in Installations
    /\ structure \in { [kind |-> "vendor", away |-> Str("home")],
                       [kind |-> "literal", away |-> Bool(FALSE)] }
    /\ Constructed

\* A fanless thermostat of every combination of can_heat and can_cool.
InitCaps ==
    /\ \E h, c \in BOOLEAN :
         device = Thermostat(h, c, FALSE, Str("C"), Tuple(Num(16), Num(22)))
    /\ structure = [kind |-> "vendor", away |-> Str("home")]
    /\ Constructed

\* One input of each kind for the specifications that run every entry point.
SomeKwargs ==
    { [temperature |-> Num(20), target_temp_low |-> None, target_temp_high |-> None],
      [temperature |-> None, target_temp_low |-> Num(18), target_temp_high |-> Num(24)] }

SomeOperationModes == {STATE_AUTO, Str("bogus")}

\* Every entry point, and the thermostat and the home changing meanwhile.
Next ==
    \/ \E kwargs \in SomeKwargs : set_temperature(kwargs)
    \/ \E operation_mode \in SomeOperationModes : set_operation_mode(operation_mode)
    \/ \E fan_mode \in FanModeInputs : set_fan_mode(fan_mode)
    \/ turn_away_mode_on
    \/ turn_away_mode_off
    \/ update
    \/ forced_update
    \/ device_mode_event
    \/ device_fan_event
    \/ structure_event

Spec == Init /\ [][Next]_vars

\* set_operation_mode over all its inputs.
NextMode ==
    \/ \E operation_mode \in OperationModeInputs : set_operation_mode(operation_mode)
    \/ update
    \/ device_mode_event

SpecMode == Init /\ [][NextMode]_vars

\* set_temperature over all its inputs, in every mode.
NextTemp ==
    \/ \E kwargs \in Kwargs : set_temperature(kwargs)
    \/ update
    \/ forced_update
    \/ device_mode_event
    \/ device_target_event

SpecTemp == Init /\ [][NextTemp]_vars

\* The read accessors over every state update can cache.
NextRead ==
    \/ update
    \/ device_mode_event
    \/ device_target_event
    \/ structure_event

SpecRead == Init /\ [][NextRead]_vars

\* Away mode, with a structure handle of either kind.
NextAway ==
    \/ turn_away_mode_on
    \/ turn_away_mode_off
    \/ update
    \/ structure_event
    \/ device_mode_event

SpecAway == InitAway /\ [][NextAway]_vars

\* Every entry point while the device's capabilities change.
NextCaps ==
    \/ \E kwargs \in SomeKwargs : set_temperature(kwargs)
    \/ \E operation_mode \in SomeOperationModes : set_operation_mode(operation_mode)
    \/ \E fan_mode \in FanModeInputs : set_fan_mode(fan_mode)
    \/ turn_away_mode_on
    \/ turn_away_mode_off
    \/ update
    \/ forced_update
    \/ capability_event

SpecCaps == InitCaps /\ [][NextCaps]_vars

(***************************************************************************)
(* Properties.                                                             *)
(***************************************************************************)
FiveModes == {Str("off"), Str("heat"), Str("cool"), Str("auto"), Str("eco")}

DualSetpointFlags ==
    {"SUPPORT_TARGET_TEMPERATURE_LOW", "SUPPORT_TARGET_TEMPERATURE_HIGH"}

\* C1: whatever calls and capability changes have happened since, the
\* operation list is off, then heat iff can_heat was given at construction,
\* then cool iff can_cool was, then auto iff both were, then eco; and each
\* dual-setpoint flag is in supported_features iff both were given.
C1_ListsFixedAtConstruction ==
    /\ operation_list(self) =
         <<Str("off")>>
           \o (IF given.can_heat THEN <<Str("heat")>> ELSE <<>>)
           \o (IF given.can_cool THEN <<Str("cool")>> ELSE <<>>)
           \o (IF given.can_heat /\ given.can_cool THEN <<Str("auto")>> ELSE <<>>)
           \o <<Str("eco")>>
    /\ \A flag \in DualSetpointFlags :
         flag \in supported_features(self) <=> (given.can_heat /\ given.can_cool)
    /\ (~given.can_heat /\ ~given.can_cool) =>
         operation_list(self) = <<Str("off"), Str("eco")>>
    /\ (given.can_heat /\ given.can_cool) =>
         operation_list(self) =
           <<Str("off"), Str("heat"), Str("cool"), Str("auto"), Str("eco")>>

\* A refresh has run on a device that gained both capabilities after a
\* construction without either: the list is still {off, eco}.
C1_Witness ==
    /\ ~given.can_heat /\ ~given.can_cool
    /\ device.can_heat /\ device.can_cool
    /\ last.op = "update"
    /\ self.mode # None
    /\ operation_list(self) = <<Str("off"), Str("eco")>>
    /\ supported_features(self) \cap DualSetpointFlags = {}

\* C2: set_operation_mode attempts exactly one write, to the device's mode:
\* its argument for heat, cool, off and eco, 'heat-cool' for auto, and 'off'
\* with one error logged for anything else; it raises only what the handle
\* raised, and an accepted write leaves the device in the written mode.
C2_ModeWrittenOnce ==
    last.op = "set_operation_mode" =>
      LET m == last.arg
          expected == IF m \in {Str("heat"), Str("cool"), Str("off"), Str("eco")}
                      THEN m
                      ELSE IF m = Str("auto") THEN Str("heat-cool")
                      ELSE Str("off")
      IN /\ last.writes = <<[attr |-> "device.mode", value |-> expected]>>
         /\ last.logged = IF m \in FiveModes THEN 0 ELSE 1
         /\ last.raised = IF last.handle = "ok" THEN "" ELSE last.handle
         /\ last.handle = "ok" => device.mode = expected

\* set_operation_mode("bogus") returned, logged, and the device is off.
C2_Witness ==
    /\ last.op = "set_operation_mode"
    /\ last.arg = Str("bogus")
    /\ last.raised = ""
    /\ last.logged = 1
    /\ device.mode = Str("off")

\* C10: current_operation is one of heat, cool, off, eco, auto and unknown,
\* and unknown exactly when the cached mode is none of heat, cool, off, eco
\* and heat-cool; and a refresh that follows an accepted
\* set_operation_mode(m) makes it m for the five modes and off otherwise.
C10_ModeRoundTrip ==
    /\ current_operation(self) \in FiveModes \cup {Str("unknown")}
    /\ current_operation(self) = Str("unknown") <=>
         self.mode \notin {Str("heat"), Str("cool"), Str("off"), Str("eco"),
                           Str("heat-cool")}
    /\ ( /\ last.op = "update"
         /\ last.after.op = "set_operation_mode"
         /\ last.after.handle = "ok" ) =>
         current_operation(self) =
           IF last.after.arg \in FiveModes THEN last.after.arg ELSE Str("off")

\* A refresh right after an accepted set_operation_mode("auto") shows auto.
C10_Witness ==
    /\ last.op = "update"
    /\ last.after.op = "set_operation_mode"
    /\ last.after.arg = Str("auto")
    /\ last.after.handle = "ok"
    /\ self.mode = Str("heat-cool")
    /\ current_operation(self) = Str("auto")

\* C3: a set_temperature whose write the device rejects with an API fault
\* returns, logs one error, has attempted the write once, schedules one
\* forced refresh and leaves device and cache as they were; and the forced
\* refresh leaves the cached target equal to the target the device holds,
\* which the rejected write did not change.
C3_FaultThenRefresh ==
    [][ /\ (last'.op = "set_temperature" /\ last'.handle = "APIError") =>
             /\ last'.raised = ""
             /\ last'.logged = 1
             /\ Len(last'.writes) = 1
             /\ pending' = pending + 1
             /\ device' = device
             /\ self' = self
        /\ (last'.op = "update" /\ last'.arg = Str("scheduled")) =>
             /\ pending' = pending - 1
             /\ device' = device
             /\ self'.target_temperature =
                  IF device.mode = Str("heat-cool") THEN device.target_range
                  ELSE device.target_single
             /\ ( /\ last.op = "set_temperature"
                  /\ last.handle = "APIError"
                  /\ last.writes[1].value \notin {device.target_range,
                                                  device.target_single} ) =>
                  self'.target_temperature # last.writes[1].value
      ]_vars

\* The forced refresh has run right after a rejected write of 20: the cache
\* holds the device's 21.
C3_Witness ==
    /\ last.op = "update"
    /\ last.arg = Str("scheduled")
    /\ last.after.op = "set_temperature"
    /\ last.after.handle = "APIError"
    /\ last.after.raised = ""
    /\ last.after.writes = <<[attr |-> "device.target", value |-> Num(20)]>>
    /\ self.target_temperature = Num(21)
    /\ device.target_single = Num(21)
    /\ pending = 0

\* C7: set_temperature attempts at most one write, to the device's target,
\* chosen by the cached mode: in heat-cool the pair (target_temp_low,
\* target_temp_high) when both are given and nothing otherwise; in any other
\* mode the temperature argument when given and nothing otherwise.  When
\* nothing is written the device is unchanged; an accepted write changes the
\* written setpoint only.
C7_OneWriteByCachedMode ==
    [][ last'.op = "set_temperature" =>
          LET kw == last'.arg
              pair == [kind |-> "tuple", lo |-> kw.target_temp_low,
                       hi |-> kw.target_temp_high]
              expected ==
                IF self.mode = Str("heat-cool")
                THEN IF kw.target_temp_low # None /\ kw.target_temp_high # None
                     THEN <<[attr |-> "device.target", value |-> pair]>>
                     ELSE <<>>
                ELSE IF kw.temperature # None
                     THEN <<[attr |-> "device.target", value |-> kw.temperature]>>
                     ELSE <<>>
          IN /\ last'.writes = expected
             /\ Len(last'.writes) <= 1
             /\ (expected = <<>>) => (device' = device /\ last'.handle = "")
             /\ (last'.handle # "ok") => device' = device
             /\ (last'.handle = "ok") =>
                  device' = IF self.mode = Str("heat-cool")
                            THEN [device EXCEPT !.target_range = pair]
                            ELSE [device EXCEPT !.target_single = kw.temperature]
      ]_vars

\* In heat-cool, with all three keywords given, the pair was written and
\* accepted and the single setpoint is not the temperature argument.
C7_Witness ==
    /\ last.op = "set_temperature"
    /\ self.mode = Str("heat-cool")
    /\ last.arg = [temperature |-> Num(20), target_temp_low |-> Num(18),
                   target_temp_high |-> Num(24)]
    /\ last.handle = "ok"
    /\ device.target_range = Tuple(Num(18), Num(24))
    /\ device.target_single = Num(21)

\* C4 as stated: whenever the cached mode is heat-cool and the cached target
\* is a range (low, high), target_temperature is none, target_temperature_low
\* is low and target_temperature_high is high.
C4_AsStated ==
    (self.mode = Str("heat-cool") /\ self.target_temperature.kind = "tuple") =>
      /\ target_temperature(self) = None
      /\ target_temperature_low(self) = self.target_temperature.lo
      /\ target_temperature_high(self) = self.target_temperature.hi

\* C4, amended: in those states target_temperature is none, and each bound
\* accessor returns its half of the range unless away mode is on and the
\* corresponding eco bound is truthy, when it returns that eco bound.
C4_RangeUnlessAwayEco ==
    (self.mode = Str("heat-cool") /\ self.target_temperature.kind = "tuple") =>
      /\ target_temperature(self) = None
      /\ target_temperature_low(self) =
           IF self.away = Bool(TRUE)
              /\ self.eco_temperature.lo \notin {None, Num(0)}
           THEN self.eco_temperature.lo
           ELSE self.target_temperature.lo
      /\ target_temperature_high(self) =
           IF self.away = Bool(TRUE)
              /\ self.eco_temperature.hi \notin {None, Num(0)}
           THEN self.eco_temperature.hi
           ELSE self.target_temperature.hi

\* Heat-cool with the range (18, 24) cached and nobody away: none, 18, 24.
C4_Witness ==
    /\ self.mode = Str("heat-cool")
    /\ self.target_temperature = Tuple(Num(18), Num(24))
    /\ self.away = Bool(FALSE)
    /\ target_temperature(self) = None
    /\ target_temperature_low(self) = Num(18)
    /\ target_temperature_high(self) = Num(24)

\* C5: each bound accessor returns the eco bound when away mode is on or the
\* mode is eco and that eco bound is truthy; otherwise its half of the cached
\* range when the mode is heat-cool; otherwise none.  With away on and the
\* eco range (16, 22) the low bound is 16 in every mode.
C5_BoundPrecedence ==
    LET eco == self.away = Bool(TRUE) \/ self.mode = Str("eco") IN
    /\ target_temperature_low(self) =
         IF eco /\ self.eco_temperature.lo \notin {None, Num(0)}
         THEN self.eco_temperature.lo
         ELSE IF self.mode = Str("heat-cool") THEN self.target_temperature.lo
         ELSE None
    /\ target_temperature_high(self) =
         IF eco /\ self.eco_temperature.hi \notin {None, Num(0)}
         THEN self.eco_temperature.hi
         ELSE IF self.mode = Str("heat-cool") THEN self.target_temperature.hi
         ELSE None
    /\ (self.away = Bool(TRUE) /\ self.eco_temperature = Tuple(Num(16), Num(22))) =>
         target_temperature_low(self) = Num(16)

\* Away, in heat-cool, with the eco range (0, none): both eco bounds are
\* falsy and the accessors fall through to the cached range.
C5_Witness ==
    /\ self.away = Bool(TRUE)
    /\ self.mode = Str("heat-cool")
    /\ self.eco_temperature = Tuple(Num(0), None)
    /\ target_temperature_low(self) = self.target_temperature.lo
    /\ target_temperature_high(self) = self.target_temperature.hi

C6_AsStated ==
    (last.handle = "APIError") =>
      /\ last.raised = ""
      /\ last.logged >= 1
      /\ Len(last.writes) = 1
      /\ pending >= 1

\* C8: only update changes the adapter, and it sets every cached field from
\* the handles; so no command changes what a read accessor returns, and
\* set_temperature writes a pair exactly when the mode cached by the last
\* update is heat-cool, whatever mode the device is in by now.
C8_CacheChangesOnlyInUpdate ==
    [][ /\ last'.op # "update" =>
             /\ self' = self
             /\ current_operation(self') = current_operation(self)
             /\ target_temperature(self') = target_temperature(self)
             /\ target_temperature_low(self') = target_temperature_low(self)
             /\ target_temperature_high(self') = target_temperature_high(self)
             /\ is_away_mode_on(self') = is_away_mode_on(self)
             /\ current_fan_mode(self') = current_fan_mode(self)
        /\ last'.op = "update" =>
             /\ self'.location = device.where
             /\ self'.name = device.name
             /\ self'.humidity = device.humidity
             /\ self'.temperature = device.temperature
             /\ self'.mode = device.mode
             /\ self'.target_temperature =
                  IF device.mode = Str("heat-cool") THEN device.target_range
                  ELSE device.target_single
             /\ self'.fan = device.fan
             /\ self'.away = Bool(structure.away = Str("away"))
             /\ self'.eco_temperature = device.eco_temperature
             /\ self'.locked_temperature = device.locked_temperature
             /\ self'.min_temperature = device.min_temperature
             /\ self'.max_temperature = device.max_temperature
             /\ self'.is_locked = device.is_locked
             /\ self'.temperature_scale \in {TEMP_CELSIUS, TEMP_FAHRENHEIT}
             /\ self'.temperature_scale = TEMP_CELSIUS <=>
                  device.temperature_scale = Str("C")
        /\ (last'.op = "set_temperature" /\ last'.writes # <<>>) =>
             (last'.writes[1].value.kind = "tuple" <=> self.mode = Str("heat-cool"))
      ]_vars

\* The device is in heat-cool by now, the cache still says heat, and
\* set_temperature has written the single target.
C8_Witness ==
    /\ last.op = "set_temperature"
    /\ device.mode = Str("heat-cool")
    /\ self.mode = Str("heat")
    /\ current_operation(self) = Str("heat")
    /\ last.writes = <<[attr |-> "device.target", value |-> Num(20)]>>

====
